---- MODULE Spec2Model ----
(***************************************************************************)
(* Model of netstack's generational connection pool                         *)
(* (src/netstack/src/connection.rs): the Connection handle, the slot pool   *)
(* ConnectionList with its FIFO queue of free ids, and the generation       *)
(* stamped side table ConnectionDataList.                                   *)
(*                                                                          *)
(* A Vec is a function over 0..len-1 (ids are 0-based indices), a VecDeque  *)
(* is a sequence whose head is the front, an Option is a sequence of length *)
(* 0 (None) or 1 (Some), and a Result<(), ()> is the string "Ok" or "Err".  *)
(***************************************************************************)
EXTENDS Integers, Sequences, FiniteSets, TLC

\* Largest capacity handed to ConnectionList::new / ConnectionDataList::new.
MaxSize == 3
\* Cap on a slot's generation (a usize in the source, far from its overflow).
MaxGen == 6
\* Number of calls written to the call log when the log is kept.
MaxLog == 6
\* Largest capacity and largest handle generation used on a ConnectionDataList.
MaxDataSize == 2
MaxDataGen == 3
\* Largest capacity and generation of a pool used together with a data list.
MaxJointSize == 2
MaxJointGen == 3

VARIABLES
    connections,    \* ConnectionList.connections : Vec<Connection>
    empty,          \* ConnectionList.empty : VecDeque<usize>
    items,          \* ConnectionDataList.items : Vec<Option<T>>
    generations,    \* ConnectionDataList.generations : Vec<usize>
    panicked,       \* a call ended in panic!: the caller is gone
    issued,         \* the handles create_connection has returned so far
    deleted,        \* the handles delete_connection has accepted so far
    ahead,          \* per id: the ids that were free before it and not issued since
    last,           \* the last call: operation, arguments, what it returned
    rec,            \* whether the calls are being logged
    log,            \* the create/delete calls since new(), in order
    lastset,        \* per id: the generation of the last set() that returned
    followed,       \* how many calls were made, while they are the first calls
                    \* of the capacity 1 scenario of the data list; else -1
    iterator,       \* the ConnectionIterator borrowing the pool, if any
    yielded         \* what its next() has returned so far

poolVars == <<connections, empty>>
dataVars == <<items, generations>>
histVars == <<issued, deleted, ahead>>
dataHist == <<lastset, followed>>
iterVars == <<iterator, yielded>>
vars == <<connections, empty, items, generations, panicked, issued, deleted,
          ahead, last, rec, log, lastset, followed, iterator, yielded>>

Range(s) == {s[k] : k \in DOMAIN s}

\* The payloads stored in a ConnectionDataList<T>.
Values == {"a", "b", "c"}

\* The payloads stored when a pool and a data list are used together.
JointValues == {"a", "b"}

\* The Connection values handed to a ConnectionDataList.
Handles == [id : 0..(MaxDataSize - 1), generation : 0..MaxDataGen]

(***************************************************************************)
(* Connection                                                               *)
(***************************************************************************)
Connection_new(id, generation) == [id |-> id, generation |-> generation]

(***************************************************************************)
(* ConnectionList                                                           *)
(***************************************************************************)
\* the last id is never queued
ConnectionList_new_short(size) ==
    [connections |-> [i \in 0..(size - 1) |-> Connection_new(i, 0)],
     empty       |-> [k \in 1..(size - 1) |-> k - 1]]

ConnectionList_new(size) ==
    [connections |-> [i \in 0..(size - 1) |-> Connection_new(i, 0)],
     empty       |-> [k \in 1..size |-> k - 1]]

\* the parity of the slot alone decides
is_alive_any_generation(conns, connection) ==
    conns[connection.id].generation % 2 = 1

is_alive(conns, connection) ==
    LET id == connection.id IN
    IF conns[id].generation # connection.generation
    THEN FALSE
    ELSE connection.generation % 2 = 1

\* pop_back instead of pop_front
create_connection_lifo(list) ==
    IF list.empty = <<>>
    THEN [list |-> list, ret |-> <<>>]
    ELSE LET id == list.empty[Len(list.empty)]
             old_connection == list.connections[id]
             new_connection == Connection_new(id, old_connection.generation + 1)
         IN  [list |-> [connections |-> [list.connections EXCEPT ![id] = new_connection],
                        empty       |-> SubSeq(list.empty, 1, Len(list.empty) - 1)],
              ret  |-> <<new_connection>>]

\* front() instead of pop_front(): the id stays queued
create_connection_peek(list) ==
    IF list.empty = <<>>
    THEN [list |-> list, ret |-> <<>>]
    ELSE LET id == Head(list.empty)
             old_connection == list.connections[id]
             new_connection == Connection_new(id, old_connection.generation + 1)
         IN  [list |-> [connections |-> [list.connections EXCEPT ![id] = new_connection],
                        empty       |-> list.empty],
              ret  |-> <<new_connection>>]

\* the generation restarts at 1 on every allocation
create_connection_restart(list) ==
    IF list.empty = <<>>
    THEN [list |-> list, ret |-> <<>>]
    ELSE LET id == Head(list.empty)
             new_connection == Connection_new(id, 1)
         IN  [list |-> [connections |-> [list.connections EXCEPT ![id] = new_connection],
                        empty       |-> Tail(list.empty)],
              ret  |-> <<new_connection>>]

\* the generation advances by 2 on allocation
create_connection_skip(list) ==
    IF list.empty = <<>>
    THEN [list |-> list, ret |-> <<>>]
    ELSE LET id == Head(list.empty)
             old_connection == list.connections[id]
             new_connection == Connection_new(id, old_connection.generation + 2)
         IN  [list |-> [connections |-> [list.connections EXCEPT ![id] = new_connection],
                        empty       |-> Tail(list.empty)],
              ret  |-> <<new_connection>>]

create_connection(list) ==
    IF list.empty = <<>>
    THEN [list |-> list, ret |-> <<>>]
    ELSE LET id == Head(list.empty)
             old_connection == list.connections[id]
             new_connection == Connection_new(id, old_connection.generation + 1)
         IN  [list |-> [connections |-> [list.connections EXCEPT ![id] = new_connection],
                        empty       |-> Tail(list.empty)],
              ret  |-> <<new_connection>>]

\* the slot keeps its generation when it is freed
delete_connection_keep(list, connection) ==
    LET id == connection.id
        old_connection == list.connections[id]
    IN  IF connection.generation # old_connection.generation
        THEN [list |-> list, res |-> "Err"]
        ELSE [list |-> [connections |-> list.connections,
                        empty       |-> Append(list.empty, id)],
              res  |-> "Ok"]

\* the id is not given back to the free queue
delete_connection_no_push(list, connection) ==
    LET id == connection.id
        old_connection == list.connections[id]
    IN  IF connection.generation # old_connection.generation
        THEN [list |-> list, res |-> "Err"]
        ELSE LET new_connection == Connection_new(id, old_connection.generation + 1)
             IN  [list |-> [connections |-> [list.connections EXCEPT ![id] = new_connection],
                            empty       |-> list.empty],
                  res  |-> "Ok"]

\* no generation check
delete_connection_unchecked(list, connection) ==
    LET id == connection.id
        old_connection == list.connections[id]
        new_connection == Connection_new(id, old_connection.generation + 1)
    IN  [list |-> [connections |-> [list.connections EXCEPT ![id] = new_connection],
                   empty       |-> Append(list.empty, id)],
         res  |-> "Ok"]

\* push_front instead of push_back
delete_connection_front(list, connection) ==
    LET id == connection.id
        old_connection == list.connections[id]
    IN  IF connection.generation # old_connection.generation
        THEN [list |-> list, res |-> "Err"]
        ELSE LET new_connection == Connection_new(id, old_connection.generation + 1)
             IN  [list |-> [connections |-> [list.connections EXCEPT ![id] = new_connection],
                            empty       |-> <<id>> \o list.empty],
                  res  |-> "Ok"]

\* the id is queued before the generation is compared
delete_connection_push_first(list, connection) ==
    LET id == connection.id
        old_connection == list.connections[id]
    IN  IF connection.generation # old_connection.generation
        THEN [list |-> [connections |-> list.connections,
                        empty       |-> Append(list.empty, id)],
              res  |-> "Err"]
        ELSE LET new_connection == Connection_new(id, old_connection.generation + 1)
             IN  [list |-> [connections |-> [list.connections EXCEPT ![id] = new_connection],
                            empty       |-> Append(list.empty, id)],
                  res  |-> "Ok"]

delete_connection(list, connection) ==
    LET id == connection.id
        old_connection == list.connections[id]
    IN  IF connection.generation # old_connection.generation
        THEN [list |-> list, res |-> "Err"]
        ELSE LET new_connection == Connection_new(id, old_connection.generation + 1)
             IN  [list |-> [connections |-> [list.connections EXCEPT ![id] = new_connection],
                            empty       |-> Append(list.empty, id)],
                  res  |-> "Ok"]

(***************************************************************************)
(* The pool as a state machine                                              *)
(***************************************************************************)
List == [connections |-> connections, empty |-> empty]

\* connections.len()
Capacity == Cardinality(DOMAIN connections)

Ids == DOMAIN connections

\* A call is written to the log while the log is kept and has room.
LogRoom == rec => Len(log) < MaxLog

Record(call) ==
    /\ last' = call
    /\ log' = IF rec THEN Append(log, call) ELSE log
    /\ rec' = rec

NoData ==
    /\ items = <<>>
    /\ generations = <<>>
    /\ lastset = <<>>
    /\ followed = -1

NoIterator ==
    /\ iterator = <<>>
    /\ yielded = <<>>

\* A &mut self call ends the borrow a ConnectionIterator holds.
EndBorrow ==
    /\ iterator' = <<>>
    /\ yielded' = <<>>

InitPool(logging) ==
    /\ \E size \in 0..MaxSize :
          LET list == ConnectionList_new(size) IN
          /\ connections = list.connections
          /\ empty = list.empty
          /\ ahead = [i \in 0..(size - 1) |-> 0..(i - 1)]
    /\ NoData
    /\ NoIterator
    /\ panicked = FALSE
    /\ issued = {}
    /\ deleted = {}
    /\ last = [op |-> "new", arg |-> <<>>, ret |-> <<>>, res |-> "Ok"]
    /\ rec = logging
    /\ log = <<>>

Init == InitPool(FALSE)

InitTrace == InitPool(TRUE)

CreateConnection ==
    /\ ~panicked
    /\ LogRoom
    /\ LET r == create_connection(List) IN
       /\ \A c \in Range(r.ret) : c.generation <= MaxGen
       /\ connections' = r.list.connections
       /\ empty' = r.list.empty
       /\ issued' = issued \cup Range(r.ret)
       /\ ahead' = [i \in DOMAIN ahead |->
                       IF \E c \in Range(r.ret) : c.id = i
                       THEN {}
                       ELSE ahead[i] \ {c.id : c \in Range(r.ret)}]
       /\ Record([op  |-> "create_connection", arg |-> <<>>, ret |-> r.ret,
                  res |-> IF r.ret = <<>> THEN "None" ELSE "Some"])
    /\ EndBorrow
    /\ UNCHANGED <<deleted, dataVars, dataHist, panicked>>

\* a successful delete also clears what the data list holds for the id
DeleteConnection_invalidating(connection) ==
    /\ ~panicked
    /\ LogRoom
    /\ LET r == delete_connection(List, connection) IN
       /\ \A i \in Ids : r.list.connections[i].generation <= MaxGen
       /\ connections' = r.list.connections
       /\ empty' = r.list.empty
       /\ deleted' = IF r.res = "Ok" THEN deleted \cup {connection} ELSE deleted
       /\ ahead' = IF r.res = "Ok"
                   THEN [ahead EXCEPT ![connection.id] = Range(empty)]
                   ELSE ahead
       /\ items' = IF r.res = "Ok" /\ connection.id \in DOMAIN items
                   THEN [items EXCEPT ![connection.id] = <<>>]
                   ELSE items
       /\ Record([op  |-> "delete_connection", arg |-> <<connection>>, ret |-> <<>>,
                  res |-> r.res])
    /\ EndBorrow
    /\ UNCHANGED <<issued, generations, dataHist, panicked>>

DeleteConnection(connection) ==
    /\ ~panicked
    /\ LogRoom
    /\ LET r == delete_connection(List, connection) IN
       /\ \A i \in Ids : r.list.connections[i].generation <= MaxGen
       /\ connections' = r.list.connections
       /\ empty' = r.list.empty
       /\ deleted' = IF r.res = "Ok" THEN deleted \cup {connection} ELSE deleted
       /\ ahead' = IF r.res = "Ok"
                   THEN [ahead EXCEPT ![connection.id] = Range(empty)]
                   ELSE ahead
       /\ Record([op  |-> "delete_connection", arg |-> <<connection>>, ret |-> <<>>,
                  res |-> r.res])
    /\ EndBorrow
    /\ UNCHANGED <<issued, dataVars, dataHist, panicked>>

IsAlive(connection) ==
    /\ ~panicked
    /\ last' = [op  |-> "is_alive", arg |-> <<connection>>, ret |-> <<>>,
                res |-> IF is_alive(connections, connection) THEN "true" ELSE "false"]
    /\ UNCHANGED <<poolVars, dataVars, dataHist, iterVars, panicked, histVars, rec, log>>

Next ==
    \/ CreateConnection
    \/ \E connection \in issued : DeleteConnection(connection)
    \/ \E connection \in issued : IsAlive(connection)

Spec == Init /\ [][Next]_vars

SpecTrace == InitTrace /\ [][Next]_vars

(***************************************************************************)
(* ConnectionIterator                                                       *)
(* The iterator borrows the pool (list: &'a ConnectionList): while it is in *)
(* use no &mut self call can be made, and such a call ends it.              *)
(***************************************************************************)
into_iter(list) == [index |-> 0]

\* every slot is returned, alive or not
ConnectionIterator_next_unfiltered(list, it) ==
    IF it.index < Cardinality(DOMAIN list.connections)
    THEN [it  |-> [index |-> it.index + 1],
          ret |-> <<list.connections[it.index]>>]
    ELSE [it |-> it, ret |-> <<>>]

RECURSIVE ConnectionIterator_next(_, _)
ConnectionIterator_next(list, it) ==
    IF it.index < Cardinality(DOMAIN list.connections)
    THEN LET connection == list.connections[it.index]
             advanced == [index |-> it.index + 1]
         IN  IF is_alive(list.connections, connection)
             THEN [it |-> advanced, ret |-> <<connection>>]
             ELSE ConnectionIterator_next(list, advanced)
    ELSE [it |-> it, ret |-> <<>>]

IntoIter ==
    /\ ~panicked
    /\ iterator' = <<into_iter(List)>>
    /\ yielded' = <<>>
    /\ last' = [op |-> "into_iter", arg |-> <<>>, ret |-> <<>>, res |-> "Ok"]
    /\ UNCHANGED <<poolVars, dataVars, dataHist, panicked, histVars, rec, log>>

IteratorNext ==
    /\ ~panicked
    /\ iterator # <<>>
    /\ LET r == ConnectionIterator_next(List, iterator[1]) IN
       /\ iterator' = <<r.it>>
       /\ yielded' = yielded \o r.ret
       /\ last' = [op  |-> "next", arg |-> <<>>, ret |-> r.ret,
                   res |-> IF r.ret = <<>> THEN "None" ELSE "Some"]
    /\ UNCHANGED <<poolVars, dataVars, dataHist, panicked, histVars, rec, log>>

NextIter ==
    \/ Next
    \/ IntoIter
    \/ IteratorNext

SpecIter == Init /\ [][NextIter]_vars

(***************************************************************************)
(* ConnectionDataList<T>                                                    *)
(* Indexing a Vec past its end panics, as does set() on an older            *)
(* generation; a panicking call leaves the list as it was.                  *)
(***************************************************************************)
ConnectionDataList_new(size) ==
    [items       |-> [i \in 0..(size - 1) |-> <<>>],
     generations |-> [i \in 0..(size - 1) |-> 0]]

InBounds(dl, id) == id \in DOMAIN dl.generations

\* the stamp is not compared
get_any_generation(dl, connection) ==
    LET id == connection.id IN
    IF ~InBounds(dl, id)
    THEN [dl |-> dl, ret |-> <<>>, res |-> "panic"]
    ELSE [dl |-> dl, ret |-> dl.items[id],
          res |-> IF dl.items[id] = <<>> THEN "None" ELSE "Some"]

get(dl, connection) ==
    LET id == connection.id IN
    IF ~InBounds(dl, id)
    THEN [dl |-> dl, ret |-> <<>>, res |-> "panic"]
    ELSE IF connection.generation # dl.generations[id]
    THEN [dl |-> dl, ret |-> <<>>, res |-> "None"]
    ELSE [dl |-> dl, ret |-> dl.items[id],
          res |-> IF dl.items[id] = <<>> THEN "None" ELSE "Some"]

\* The caller writes `written` through the returned &mut T, if there is one.
get_mut(dl, connection, written) ==
    LET id == connection.id IN
    IF ~InBounds(dl, id)
    THEN [dl |-> dl, ret |-> <<>>, res |-> "panic"]
    ELSE IF connection.generation # dl.generations[id]
    THEN [dl |-> dl, ret |-> <<>>, res |-> "None"]
    ELSE IF dl.items[id] = <<>>
    THEN [dl |-> dl, ret |-> <<>>, res |-> "None"]
    ELSE [dl  |-> [dl EXCEPT !.items[id] = <<written>>],
          ret |-> dl.items[id], res |-> "Some"]

\* <= instead of <: the generation that wrote cannot write again
set_strict(dl, connection, item) ==
    LET id == connection.id IN
    IF ~InBounds(dl, id)
    THEN [dl |-> dl, ret |-> <<>>, res |-> "panic"]
    ELSE IF connection.generation <= dl.generations[id]
    THEN [dl |-> dl, ret |-> <<>>, res |-> "panic"]
    ELSE [dl  |-> [dl EXCEPT !.generations[id] = connection.generation,
                             !.items[id] = <<item>>],
          ret |-> <<>>, res |-> "Ok"]

\* no comparison with the stamp: an older generation writes
set_unchecked(dl, connection, item) ==
    LET id == connection.id IN
    IF ~InBounds(dl, id)
    THEN [dl |-> dl, ret |-> <<>>, res |-> "panic"]
    ELSE [dl  |-> [dl EXCEPT !.generations[id] = connection.generation,
                             !.items[id] = <<item>>],
          ret |-> <<>>, res |-> "Ok"]

\* the stamp is left as it was
set_keep_stamp(dl, connection, item) ==
    LET id == connection.id IN
    IF ~InBounds(dl, id)
    THEN [dl |-> dl, ret |-> <<>>, res |-> "panic"]
    ELSE IF connection.generation < dl.generations[id]
    THEN [dl |-> dl, ret |-> <<>>, res |-> "panic"]
    ELSE [dl  |-> [dl EXCEPT !.items[id] = <<item>>],
          ret |-> <<>>, res |-> "Ok"]

set(dl, connection, item) ==
    LET id == connection.id IN
    IF ~InBounds(dl, id)
    THEN [dl |-> dl, ret |-> <<>>, res |-> "panic"]
    ELSE IF connection.generation < dl.generations[id]
    THEN [dl |-> dl, ret |-> <<>>, res |-> "panic"]
    ELSE [dl  |-> [dl EXCEPT !.generations[id] = connection.generation,
                             !.items[id] = <<item>>],
          ret |-> <<>>, res |-> "Ok"]

\* the stamp is not compared
remove_any_generation(dl, connection) ==
    LET id == connection.id IN
    IF ~InBounds(dl, id)
    THEN [dl |-> dl, ret |-> <<>>, res |-> "panic"]
    ELSE [dl  |-> [dl EXCEPT !.items[id] = <<>>],
          ret |-> dl.items[id],
          res |-> IF dl.items[id] = <<>> THEN "None" ELSE "Some"]

remove(dl, connection) ==
    LET id == connection.id IN
    IF ~InBounds(dl, id)
    THEN [dl |-> dl, ret |-> <<>>, res |-> "panic"]
    ELSE IF connection.generation # dl.generations[id]
    THEN [dl |-> dl, ret |-> <<>>, res |-> "None"]
    ELSE [dl  |-> [dl EXCEPT !.items[id] = <<>>],
          ret |-> dl.items[id],
          res |-> IF dl.items[id] = <<>> THEN "None" ELSE "Some"]

(***************************************************************************)
(* The data list as a state machine                                         *)
(***************************************************************************)
DataList == [items |-> items, generations |-> generations]

NoPool ==
    /\ connections = <<>>
    /\ empty = <<>>
    /\ issued = {}
    /\ deleted = {}
    /\ ahead = <<>>

InitData ==
    /\ \E size \in 0..MaxDataSize :
          LET dl == ConnectionDataList_new(size) IN
          /\ items = dl.items
          /\ generations = dl.generations
          /\ lastset = [i \in 0..(size - 1) |-> 0]
    /\ followed = 0
    /\ NoPool
    /\ NoIterator
    /\ panicked = FALSE
    /\ last = [op |-> "new", arg |-> <<>>, ret |-> <<>>, res |-> "Ok"]
    /\ rec = FALSE
    /\ log = <<>>

\* The calls of the capacity 1 scenario and what each returns.
ScenarioC13 ==
    << [op  |-> "set", arg |-> <<Connection_new(0, 1), "a">>,
        ret |-> <<>>, res |-> "Ok"],
       [op  |-> "get", arg |-> <<Connection_new(0, 1)>>,
        ret |-> <<"a">>, res |-> "Some"],
       [op  |-> "set", arg |-> <<Connection_new(0, 3), "b">>,
        ret |-> <<>>, res |-> "Ok"],
       [op  |-> "get", arg |-> <<Connection_new(0, 3)>>,
        ret |-> <<"b">>, res |-> "Some"],
       [op  |-> "get", arg |-> <<Connection_new(0, 1)>>,
        ret |-> <<>>, res |-> "None"],
       [op  |-> "set", arg |-> <<Connection_new(0, 2), "c">>,
        ret |-> <<>>, res |-> "panic"] >>

DataCall(op, arg, r) ==
    /\ ~panicked
    /\ items' = r.dl.items
    /\ generations' = r.dl.generations
    /\ panicked' = (r.res = "panic")
    /\ last' = [op |-> op, arg |-> arg, ret |-> r.ret, res |-> r.res]
    /\ lastset' = IF op = "set" /\ r.res = "Ok"
                  THEN [lastset EXCEPT ![arg[1].id] = arg[1].generation]
                  ELSE lastset
    /\ followed' = IF /\ followed >= 0
                      /\ followed < Len(ScenarioC13)
                      /\ ScenarioC13[followed + 1].op = op
                      /\ ScenarioC13[followed + 1].arg = arg
                   THEN followed + 1
                   ELSE -1
    /\ UNCHANGED <<poolVars, histVars, iterVars, rec, log>>

Get(connection) ==
    DataCall("get", <<connection>>, get(DataList, connection))

GetMut(connection, written) ==
    DataCall("get_mut", <<connection>>, get_mut(DataList, connection, written))

Set(connection, item) ==
    DataCall("set", <<connection, item>>, set(DataList, connection, item))

Remove(connection) ==
    DataCall("remove", <<connection>>, remove(DataList, connection))

NextData ==
    \/ \E connection \in Handles : Get(connection)
    \/ \E connection \in Handles, written \in Values : GetMut(connection, written)
    \/ \E connection \in Handles, item \in Values : Set(connection, item)
    \/ \E connection \in Handles : Remove(connection)

SpecData == InitData /\ [][NextData]_vars

(***************************************************************************)
(* A ConnectionList and a ConnectionDataList of the same capacity, the data *)
(* list being used with the handles the pool has returned, live or stale,   *)
(* and written (set) with live handles only: is_alive is what the caller    *)
(* asks before a set.                                                       *)
(***************************************************************************)
InitJoint ==
    /\ \E size \in 0..MaxJointSize :
          LET list == ConnectionList_new(size)
              dl == ConnectionDataList_new(size)
          IN  /\ connections = list.connections
              /\ empty = list.empty
              /\ ahead = [i \in 0..(size - 1) |-> 0..(i - 1)]
              /\ items = dl.items
              /\ generations = dl.generations
              /\ lastset = [i \in 0..(size - 1) |-> 0]
    /\ followed = -1
    /\ NoIterator
    /\ panicked = FALSE
    /\ issued = {}
    /\ deleted = {}
    /\ last = [op |-> "new", arg |-> <<>>, ret |-> <<>>, res |-> "Ok"]
    /\ rec = FALSE
    /\ log = <<>>

JointCap == \A id \in Ids : connections'[id].generation <= MaxJointGen

NextJoint ==
    \/ CreateConnection /\ JointCap
    \/ \E connection \in issued : DeleteConnection(connection) /\ JointCap
    \/ \E connection \in issued : Get(connection)
    \/ \E connection \in issued, written \in JointValues : GetMut(connection, written)
    \/ \E connection \in issued, item \in JointValues :
          is_alive(connections, connection) /\ Set(connection, item)
    \/ \E connection \in issued : Remove(connection)

SpecJoint == InitJoint /\ [][NextJoint]_vars

(***************************************************************************)
(* Properties of ConnectionList                                             *)
(***************************************************************************)
CreatedBy(call, connection) ==
    /\ call.op = "create_connection"
    /\ call.ret = <<connection>>

DeleteOf(call, connection) ==
    /\ call.op = "delete_connection"
    /\ call.arg = <<connection>>

Generation(id) == connections[id].generation

\* The first k logged calls are all create_connection.
OnlyCreates(k) == \A j \in 1..k : log[j].op = "create_connection"

\* C1: on a pool fresh from ConnectionList::new(N), N >= 0, with no
\* delete_connection in between, each of the first N calls of
\* create_connection returns a handle and call N+1 returns None.
C1_ExactlyCapacityCreates ==
    \A k \in 1..Len(log) :
        (OnlyCreates(k) /\ k <= Capacity + 1) =>
            IF k <= Capacity
            THEN log[k].res = "Some" /\ Len(log[k].ret) = 1
            ELSE log[k].res = "None" /\ log[k].ret = <<>>

C1_Witness ==
    /\ Capacity >= 2
    /\ Len(log) = Capacity + 1
    /\ OnlyCreates(Len(log))
    /\ log[Len(log)].res = "None"

\* C2: a handle is alive right after create_connection returned it, and a
\* handle that is alive stays alive over every step that is not a successful
\* delete_connection of that very handle.
C2_AliveUntilDeleted ==
    [][ /\ \A h \in issued' : CreatedBy(last', h) => is_alive(connections', h)
        /\ \A h \in issued :
              (is_alive(connections, h) /\ ~(DeleteOf(last', h) /\ last'.res = "Ok"))
                  => is_alive(connections', h) ]_vars

\* A handle is still alive after another id went through a whole cycle and
\* after a delete_connection that failed.
C2_Witness ==
    /\ last.op = "delete_connection"
    /\ last.res = "Err"
    /\ \E h \in issued :
          /\ is_alive(connections, h)
          /\ \E id \in Ids : id # h.id /\ Generation(id) >= 3

\* C3: once delete_connection(h) has succeeded, is_alive(h) is false in every
\* later state and every later delete_connection(h) returns Err.
C3_DeletedStaysDead ==
    /\ [](\A h \in deleted : ~is_alive(connections, h))
    /\ [][ \A h \in deleted : DeleteOf(last', h) => last'.res = "Err" ]_vars

\* A deleted handle is deleted again while its id is in use by a later handle.
C3_Witness ==
    /\ last.op = "delete_connection"
    /\ last.res = "Err"
    /\ last.arg[1] \in deleted
    /\ Generation(last.arg[1].id) = last.arg[1].generation + 2

\* C4: when create_connection returns a handle with the id of a handle
\* deleted before, the new generation is strictly greater, the new handle is
\* alive and the old one is not; and no deleted handle is alive in any state,
\* whatever later handle of its id is alive.
C4_ReuseSupersedes ==
    /\ [][ \A new \in issued' : CreatedBy(last', new) =>
              /\ is_alive(connections', new)
              /\ \A old \in deleted :
                    old.id = new.id =>
                        /\ new.generation > old.generation
                        /\ ~is_alive(connections', old) ]_vars
    /\ [](\A old \in deleted, new \in issued :
              (old.id = new.id /\ is_alive(connections, new)) =>
                  /\ new.generation > old.generation
                  /\ ~is_alive(connections, old))

\* An id is in its third incarnation, with two deleted handles behind it.
C4_Witness ==
    /\ last.op = "create_connection"
    /\ last.res = "Some"
    /\ last.ret[1].generation >= 5
    /\ is_alive(connections, last.ret[1])
    /\ Cardinality({old \in deleted : old.id = last.ret[1].id}) >= 2

\* C5: an id is in the free queue iff its slot's generation is even, the
\* free queue holds no id twice, and its length plus the number of slots of
\* odd generation is the capacity.
C5_FreeQueueInvariant ==
    /\ \A id \in Ids : (id \in Range(empty)) <=> (Generation(id) % 2 = 0)
    /\ \A j, k \in DOMAIN empty : j # k => empty[j] # empty[k]
    /\ Len(empty) + Cardinality({id \in Ids : Generation(id) % 2 = 1}) = Capacity

\* A stale handle was just refused while slots are free, in use and reused.
C5_Witness ==
    /\ last.op = "delete_connection"
    /\ last.res = "Err"
    /\ Len(empty) >= 2
    /\ \E id \in Ids : Generation(id) % 2 = 1 /\ Generation(id) >= 3

\* C6: every slot starts at generation 0; a step either leaves a slot's
\* generation alone or raises it by exactly 1, and it raises it exactly when
\* the step is a create_connection returning that id (the result is odd) or
\* a successful delete_connection of a handle of that id (the result is even).
C6_GenerationSteps ==
    /\ \A id \in Ids : Generation(id) = 0 /\ connections[id].id = id
    /\ [][ \A id \in Ids :
              LET raised == \/ /\ last'.op = "create_connection"
                               /\ last'.res = "Some"
                               /\ last'.ret[1].id = id
                            \/ /\ last'.op = "delete_connection"
                               /\ last'.res = "Ok"
                               /\ last'.arg[1].id = id
              IN  /\ connections'[id].id = id
                  /\ connections'[id].generation >= Generation(id)
                  /\ IF raised
                     THEN /\ connections'[id].generation = Generation(id) + 1
                          /\ (last'.op = "create_connection") =>
                                /\ last'.ret[1].generation = connections'[id].generation
                                /\ connections'[id].generation % 2 = 1
                          /\ (last'.op = "delete_connection") =>
                                connections'[id].generation % 2 = 0
                     ELSE connections'[id].generation = Generation(id) ]_vars

\* A slot has gone 0,1,2,3,4 and another was left alone meanwhile.
C6_Witness ==
    /\ last.op = "delete_connection"
    /\ last.res = "Ok"
    /\ Generation(last.arg[1].id) = 4
    /\ \E id \in Ids : Generation(id) = 1

\* The calls of the capacity 2 scenario and what each returns, the last
\* create_connection returning generation g of id 0.
ScenarioC7(g) ==
    << [op  |-> "create_connection", arg |-> <<>>,
        ret |-> <<Connection_new(0, 1)>>, res |-> "Some"],
       [op  |-> "create_connection", arg |-> <<>>,
        ret |-> <<Connection_new(1, 1)>>, res |-> "Some"],
       [op  |-> "create_connection", arg |-> <<>>, ret |-> <<>>, res |-> "None"],
       [op  |-> "delete_connection", arg |-> <<Connection_new(0, 1)>>,
        ret |-> <<>>, res |-> "Ok"],
       [op  |-> "create_connection", arg |-> <<>>,
        ret |-> <<Connection_new(0, g)>>, res |-> "Some"] >>

\* The first k logged calls are the first k calls of the scenario.
FollowsC7(k) ==
    /\ Capacity = 2
    /\ k <= Len(log)
    /\ k <= Len(ScenarioC7(0))
    /\ \A j \in 1..k : /\ log[j].op = ScenarioC7(0)[j].op
                       /\ log[j].arg = ScenarioC7(0)[j].arg

\* The scenario ran as written, its last handle being (0, g), dead h0 and
\* live h2 included.
RunsAsC7(g) ==
    /\ \A k \in 1..Len(ScenarioC7(g)) : FollowsC7(k) => log[k] = ScenarioC7(g)[k]
    /\ (FollowsC7(Len(ScenarioC7(g))) /\ Len(log) = Len(ScenarioC7(g))) =>
          /\ ~is_alive(connections, Connection_new(0, 1))
          /\ is_alive(connections, Connection_new(0, g))

\* C7 as claimed: on a pool of capacity 2 the calls create, create, create,
\* delete(h0), create return h0 = (0,1), h1 = (1,1), None, Ok and
\* h2 = (0,2); after them is_alive(h0) is false and is_alive(h2) is true.
C7_AsClaimed == RunsAsC7(2)

\* C7 amended: the same calls return h0 = (0,1), h1 = (1,1), None, Ok and
\* h2 = (0,3), the delete having taken slot 0 to generation 2; after them
\* is_alive(h0) is false and is_alive(h2) is true.
C7_ScenarioCapacityTwo == RunsAsC7(3)

C7_Witness ==
    /\ FollowsC7(Len(ScenarioC7(3)))
    /\ Len(log) = Len(ScenarioC7(3))
    /\ last.op = "is_alive"
    /\ last.arg = <<Connection_new(0, 3)>>
    /\ last.res = "true"

\* C8: create_connection issues the front of the free queue, a successful
\* delete_connection puts its id at the back, and so an id is never issued
\* while an id that was free before it (on a fresh pool: a lower id) waits.
C8_OldestFreeIdFirst ==
    [][ /\ (last'.op = "create_connection" /\ last'.res = "Some") =>
              /\ last'.ret[1].id = Head(empty)
              /\ empty' = Tail(empty)
              /\ ahead[last'.ret[1].id] = {}
        /\ (last'.op = "delete_connection" /\ last'.res = "Ok") =>
              empty' = Append(empty, last'.arg[1].id) ]_vars

\* An id freed first is issued again while an id freed after it still waits.
C8_Witness ==
    /\ last.op = "create_connection"
    /\ last.res = "Some"
    /\ last.ret[1].generation >= 3
    /\ \E id \in Ids : /\ Generation(id) = 2
                       /\ id < last.ret[1].id
                       /\ id \in Range(empty)

\* C9: delete_connection(h) returns Err whenever the generation stored for
\* h.id differs from h.generation, and then changes neither a slot nor the
\* free queue.
C9_StaleDeleteRejected ==
    [][ \A h \in issued :
           (DeleteOf(last', h) /\ Generation(h.id) # h.generation) =>
               /\ last'.res = "Err"
               /\ connections' = connections
               /\ empty' = empty ]_vars

\* A handle superseded by a later handle of its id was just refused.
C9_Witness ==
    /\ last.op = "delete_connection"
    /\ last.res = "Err"
    /\ Generation(last.arg[1].id) > last.arg[1].generation + 1
    /\ Generation(last.arg[1].id) % 2 = 1

(***************************************************************************)
(* Properties of ConnectionDataList                                         *)
(***************************************************************************)
\* C10: a get(h) that immediately follows a successful set(h, v) returns v,
\* and a get(h) that immediately follows remove(h) returns None: of get as
\* evaluated in the state the call left, and of the get calls made there.
C10_SetGetRemoveGet ==
    /\ []((last.op = "set" /\ last.res = "Ok") =>
             /\ get(DataList, last.arg[1]).ret = <<last.arg[2]>>
             /\ get(DataList, last.arg[1]).res = "Some")
    /\ []((last.op = "remove" /\ last.res # "panic") =>
             /\ get(DataList, last.arg[1]).ret = <<>>
             /\ get(DataList, last.arg[1]).res = "None")
    /\ [][ (last.op = "set" /\ last.res = "Ok" /\ last'.op = "get"
              /\ last'.arg = <<last.arg[1]>>) =>
                 last'.ret = <<last.arg[2]>> /\ last'.res = "Some" ]_vars
    /\ [][ (last.op = "remove" /\ last.res # "panic" /\ last'.op = "get"
              /\ last'.arg = <<last.arg[1]>>) =>
                 last'.ret = <<>> /\ last'.res = "None" ]_vars

\* A set of a later generation has just replaced what its id held, another
\* id holding a payload too.
C10_Witness ==
    /\ last.op = "set"
    /\ last.res = "Ok"
    /\ last.arg[1].generation >= 2
    /\ generations[last.arg[1].id] = last.arg[1].generation
    /\ items[last.arg[1].id] = <<last.arg[2]>>
    /\ \E id \in DOMAIN items : id # last.arg[1].id /\ items[id] # <<>>

\* C11: get, get_mut and remove with a handle whose generation is not that of
\* the last set that returned on its id (0 when there was none) return None
\* and leave every payload and every stamp as it was; so a later handle of
\* an id never gets what an earlier one wrote, removed or not.
C11_StaleHandleNoEffect ==
    [][ (/\ last'.op \in {"get", "get_mut", "remove"}
         /\ InBounds(DataList, last'.arg[1].id)
         /\ last'.arg[1].generation # lastset[last'.arg[1].id]) =>
            /\ last'.res = "None"
            /\ last'.ret = <<>>
            /\ items' = items
            /\ generations' = generations ]_vars

\* A later handle asked to remove what an earlier one wrote and never
\* removed: it got nothing and the payload is still there.
C11_Witness ==
    /\ last.op = "remove"
    /\ last.res = "None"
    /\ InBounds(DataList, last.arg[1].id)
    /\ lastset[last.arg[1].id] >= 1
    /\ last.arg[1].generation > lastset[last.arg[1].id]
    /\ items[last.arg[1].id] # <<>>

\* C12: set(h, v), h.id being an id of the list, panics exactly when
\* h.generation is less than the stamp of h.id, changing nothing; otherwise
\* it returns, the payload of h.id is v, the stamp of h.id is h.generation
\* and every other id is as it was.
C12_SetOutcome ==
    [][ (last'.op = "set" /\ InBounds(DataList, last'.arg[1].id)) =>
           LET h == last'.arg[1]
               v == last'.arg[2]
           IN  IF h.generation < generations[h.id]
               THEN /\ last'.res = "panic"
                    /\ panicked'
                    /\ items' = items
                    /\ generations' = generations
               ELSE /\ last'.res = "Ok"
                    /\ ~panicked'
                    /\ items' = [items EXCEPT ![h.id] = <<v>>]
                    /\ generations' = [generations EXCEPT ![h.id] = h.generation] ]_vars

\* A set of an older generation has just panicked on an id holding a payload,
\* the other id holding one too.
C12_Witness ==
    /\ last.op = "set"
    /\ last.res = "panic"
    /\ InBounds(DataList, last.arg[1].id)
    /\ last.arg[1].generation >= 1
    /\ generations[last.arg[1].id] > last.arg[1].generation
    /\ \A id \in DOMAIN items : items[id] # <<>>
    /\ Cardinality(DOMAIN items) >= 2

\* C13: on a list of capacity 1, set((0,1),"a") returns and get((0,1)) is
\* "a"; then set((0,3),"b") returns, get((0,3)) is "b" and get((0,1)) is
\* None; then set((0,2),"c") panics.
C13_ScenarioCapacityOne ==
    (followed >= 1 /\ Cardinality(DOMAIN items) = 1) =>
        last = ScenarioC13[followed]

C13_Witness ==
    /\ Cardinality(DOMAIN items) = 1
    /\ followed = Len(ScenarioC13)
    /\ panicked
    /\ items[0] = <<"b">>
    /\ generations[0] = 3

\* C15: the stamp of an id never decreases, it is always the generation of
\* the last set that returned on that id (0 before any), and a set that
\* returns never has a generation below that of an earlier one on its id.
C15_StampIsLastSet ==
    /\ [](\A id \in DOMAIN generations : generations[id] = lastset[id])
    /\ [][ \A id \in DOMAIN generations : generations'[id] >= generations[id] ]_vars
    /\ [][ (last'.op = "set" /\ last'.res = "Ok") =>
              last'.arg[1].generation >= lastset[last'.arg[1].id] ]_vars

\* A stamp was raised twice, with reads and a remove in between.
C15_Witness ==
    /\ last.op = "set"
    /\ last.res = "Ok"
    /\ last.arg[1].generation = 3
    /\ \E id \in DOMAIN generations : id # last.arg[1].id /\ generations[id] = 2
                                         /\ items[id] = <<>>

(***************************************************************************)
(* Properties of ConnectionIterator                                         *)
(***************************************************************************)
\* The slots of the ids below n, in ascending order of id.
SlotsBelow(n) == [k \in 1..n |-> connections[k - 1]]

OddGeneration(connection) == connection.generation % 2 = 1

\* C14: an iteration from into_iter to the None of next yields the handles
\* (id, stored generation) of the slots of odd generation, each once, in
\* ascending order of id, and nothing else; into_iter and next change no
\* slot and not the free queue, so a restart yields the same.
C14_IterationYieldsLiveSlots ==
    /\ [](iterator # <<>> =>
             /\ iterator[1].index <= Capacity
             /\ yielded = SelectSeq(SlotsBelow(iterator[1].index), OddGeneration))
    /\ []((iterator # <<>> /\ last.op = "next" /\ last.res = "None") =>
             /\ yielded = SelectSeq(SlotsBelow(Capacity), OddGeneration)
             /\ \A j, k \in DOMAIN yielded : j < k => yielded[j].id < yielded[k].id)
    /\ [][ last'.op \in {"into_iter", "next"} =>
              /\ connections' = connections
              /\ empty' = empty ]_vars

\* An iteration has ended on a pool of three slots whose middle one is free
\* after use and whose last one is in its second life.
C14_Witness ==
    /\ Capacity = 3
    /\ iterator # <<>>
    /\ last.op = "next"
    /\ last.res = "None"
    /\ Len(yielded) = 2
    /\ Generation(1) = 2
    /\ yielded[2] = Connection_new(2, 3)

(***************************************************************************)
(* Further properties of ConnectionList                                     *)
(***************************************************************************)
\* Call k of the log is a create_connection, and since the last
\* create_connection before it a delete_connection has returned Ok.
CreateAfterDelete(k) ==
    /\ log[k].op = "create_connection"
    /\ \E j \in 1..(k - 1) :
          /\ log[j].op = "delete_connection"
          /\ log[j].res = "Ok"
          /\ \A m \in (j + 1)..(k - 1) : log[m].op # "create_connection"

\* C17: create_connection on an empty free queue returns None and changes
\* neither a slot nor the queue; and the first create_connection after a
\* delete_connection that returned Ok returns a handle.
C17_ExhaustionIsNotFinal ==
    /\ [][ (last'.op = "create_connection" /\ empty = <<>>) =>
              /\ last'.res = "None"
              /\ last'.ret = <<>>
              /\ connections' = connections
              /\ empty' = empty ]_vars
    /\ [](\A k \in 1..Len(log) : CreateAfterDelete(k) => log[k].res = "Some")

\* The pool of two slots was exhausted, refused a create_connection, got a
\* slot back and has just issued it again.
C17_Witness ==
    /\ Capacity = 2
    /\ Len(log) >= 5
    /\ \E j \in 1..(Len(log) - 2) :
          /\ log[j].op = "create_connection"
          /\ log[j].res = "None"
          /\ log[j + 1].op = "delete_connection"
          /\ log[j + 1].res = "Ok"
    /\ CreateAfterDelete(Len(log))
    /\ log[Len(log)].res = "Some"

\* C18: create_connection never returns an (id, generation) pair it has
\* returned before, and of the handles of one id at most one is alive.
C18_HandlesAreUnique ==
    /\ [][ \A h \in issued' : CreatedBy(last', h) => h \notin issued ]_vars
    /\ [](\A a, b \in issued :
             (a.id = b.id /\ is_alive(connections, a) /\ is_alive(connections, b))
                 => a = b)

\* An id has had three handles, the last of them alive.
C18_Witness ==
    /\ \E id \in Ids :
          /\ Cardinality({h \in issued : h.id = id}) >= 3
          /\ Cardinality({h \in issued : h.id = id /\ is_alive(connections, h)}) = 1
    /\ last.op = "create_connection"
    /\ last.res = "Some"

\* C19: for every handle create_connection has returned, is_alive(h) holds
\* exactly when delete_connection(h) would return Ok, and every such handle
\* has an odd generation: of delete_connection as evaluated in each state
\* and of the delete_connection calls made.
C19_AliveIffDeletable ==
    /\ [](\A h \in issued :
             /\ h.generation % 2 = 1
             /\ is_alive(connections, h) <=> (delete_connection(List, h).res = "Ok"))
    /\ [][ \A h \in issued :
              DeleteOf(last', h) =>
                  (last'.res = "Ok" <=> is_alive(connections, h)) ]_vars

\* A live handle was just deleted while a stale handle of another id, whose
\* slot is in use again, is around.
C19_Witness ==
    /\ last.op = "delete_connection"
    /\ last.res = "Ok"
    /\ \E h \in issued :
          /\ h.id # last.arg[1].id
          /\ Generation(h.id) = h.generation + 2
          /\ ~is_alive(connections, h)

(***************************************************************************)
(* Properties of a ConnectionList and a ConnectionDataList used together    *)
(***************************************************************************)
\* The data list as the step leaves it.
DataListAfter == [items |-> items', generations |-> generations']

\* The step is a call that writes the payload of the id of h: a set or a
\* remove that found it, or the caller's write through get_mut.
WritesPayloadOf(h) ==
    /\ last'.op \in {"set", "remove", "get_mut"}
    /\ last'.arg[1].id = h.id

\* C16: delete_connection does not touch what the data list holds for the
\* handle: a payload that get(h) returns is returned by get(h) after every
\* step that is not a write to its id, delete_connection(h) and a later
\* create_connection on the id included, although is_alive(h) is false then;
\* get(h) stops returning a payload only by remove(h) or a set on h.id.
C16_PayloadOutlivesDelete ==
    [][ /\ last'.op \in {"create_connection", "delete_connection"} =>
              /\ items' = items
              /\ generations' = generations
        /\ \A h \in issued :
              LET before == get(DataList, h)
                  after == get(DataListAfter, h)
              IN  before.res = "Some" =>
                     /\ ~WritesPayloadOf(h) =>
                           /\ after.res = "Some"
                           /\ after.ret = before.ret
                     /\ after.res # "Some" =>
                           \/ last'.op = "remove" /\ last'.arg[1] = h
                           \/ last'.op = "set" /\ last'.arg[1].id = h.id ]_vars

\* The handle that wrote "a" was deleted and its id issued again: get of the
\* dead handle has just returned "a".
C16_Witness ==
    /\ last.op = "get"
    /\ last.res = "Some"
    /\ last.ret = <<"a">>
    /\ last.arg[1] \in deleted
    /\ ~is_alive(connections, last.arg[1])
    /\ Generation(last.arg[1].id) = last.arg[1].generation + 2

\* C20: with every set made with a handle that is alive in the pool at the
\* call, no set panics, the stamp of an id never being above the pool's
\* generation of that id.
C20_LiveSetNeverPanics ==
    /\ \A id \in Ids : generations[id] <= Generation(id)
    /\ last.op = "set" => last.res = "Ok"
    /\ ~panicked

\* The second handle of an id has just written over what the first one left,
\* after a remove with the stale handle.
C20_Witness ==
    /\ last.op = "set"
    /\ last.res = "Ok"
    /\ last.arg[1].generation = 3
    /\ \E id \in Ids : id # last.arg[1].id /\ generations[id] = 1
                          /\ Generation(id) = 2 /\ items[id] = <<>>

====
